---- MODULE Spec2Model ----
(***************************************************************************)
(* A model of the umami analytics tool server:                             *)
(*   - utils.convert_date_to_unix (the date normalizer),                   *)
(*   - server._get_session_ids (the session collector),                    *)
(*   - the seven tool handlers of server.py.                               *)
(* Texts are sequences of tokens; date strings are sequences of            *)
(* one-character strings, so that parsing is computed and not assumed.     *)
(* A millisecond timestamp t is the record [sec, ms] with                  *)
(* t = 1000 * sec + ms: the values exceed the 32-bit integers of TLC.      *)
(***************************************************************************)
EXTENDS Integers, Sequences, FiniteSets, Bags, TLC

(***************************************************************************)
(* Bounds of the model.                                                    *)
(***************************************************************************)
\* the page counter of the collector is followed up to this value
MaxPage == 6
\* longest data list of one page of events
MaxData == 3
\* number of concurrent invocations in SpecConc
NInv == 2

(***************************************************************************)
(* Characters and input date strings.                                      *)
(***************************************************************************)
DigitChars == <<"0", "1", "2", "3", "4", "5", "6", "7", "8", "9">>

Dg(lo, hi) == {DigitChars[n + 1] : n \in lo..hi}

Digits == Dg(0, 9)

DigitVal(c) == CHOOSE n \in 0..9 : DigitChars[n + 1] = c

Pad2(n) == <<DigitChars[(n \div 10) + 1], DigitChars[(n % 10) + 1]>>

Pad4(n) == Pad2(n \div 100) \o Pad2(n % 100)

\* "YYYY-MM-DD"
DateText(y, m, d) == Pad4(y) \o <<"-">> \o Pad2(m) \o <<"-">> \o Pad2(d)

\* "HH:MM:SS"
TimeText(h, mi, s) == Pad2(h) \o <<":">> \o Pad2(mi) \o <<":">> \o Pad2(s)

\* calendar samples: real days, and days no month has (02-30, 1987-02-29)
SampleYMD ==
    {<<1987, 3, 1>>, <<1987, 2, 29>>, <<1987, 6, 3>>,
     <<2024, 3, 1>>, <<2024, 2, 29>>, <<2024, 2, 30>>, <<2024, 12, 31>>}

\* clock samples: real times, an hour and a second no day has
SampleHMS ==
    {<<0, 0, 0>>, <<8, 30, 0>>, <<23, 59, 59>>, <<24, 0, 0>>, <<8, 30, 60>>}

DateOnlyStrings == {DateText(x[1], x[2], x[3]) : x \in SampleYMD}

DateTimeStrings ==
    {DateText(x[1], x[2], x[3]) \o <<" ">> \o TimeText(t[1], t[2], t[3]) :
        x \in {<<1987, 3, 1>>, <<2024, 3, 1>>, <<2024, 2, 30>>}, t \in SampleHMS}

\* strings of other shapes, some of which strptime accepts all the same
OddStrings ==
    {<<"n", "o", "t", "-", "a", "-", "d", "a", "t", "e">>,
     <<>>,
     <<"2", "0", "2", "4", "/", "0", "3", "/", "0", "1">>,
     <<"2", "0", "2", "4", "-", "1", "3", "-", "0", "1">>,
     <<"2", "0", "2", "4", "-", "3", "-", "1">>,
     <<"2", "0", "2", "4", "-", "0", "3", "-", " ", "5">>,
     <<"2", "0", "2", "4", "-", "0", "3", "-", "0", "1", "1">>,
     <<"2", "4", "-", "0", "3", "-", "0", "1">>,
     DateText(2024, 3, 1) \o <<"T">> \o TimeText(8, 30, 0),
     DateText(2024, 3, 1) \o <<" ", " ">> \o TimeText(8, 30, 0),
     DateText(2024, 3, 1) \o <<" ", "8", ":", "3", ":", "0">>,
     DateText(2024, 3, 1) \o <<" ">>,
     DateText(2024, 3, 1) \o <<" ">> \o <<"0", "8", ":", "3", "0">>}

DateStrings == DateOnlyStrings \cup DateTimeStrings \cup OddStrings

(***************************************************************************)
(* datetime.strptime: the format is turned into a regular expression, one  *)
(* group of ordered alternatives per directive, matched from the start of  *)
(* the string with backtracking; then the whole string must have been      *)
(* consumed and the fields must make a datetime.                           *)
(***************************************************************************)
\* an alternative is a sequence of character classes; a directive is a
\* sequence of alternatives, tried in order
DirY == <<<<Digits, Digits, Digits, Digits>>>>
Dirm == <<<<{"1"}, Dg(0, 2)>>, <<{"0"}, Dg(1, 9)>>, <<Dg(1, 9)>>>>
Dird == <<<<{"3"}, Dg(0, 1)>>, <<Dg(1, 2), Digits>>, <<{"0"}, Dg(1, 9)>>,
          <<Dg(1, 9)>>, <<{" "}, Dg(1, 9)>>>>
DirH == <<<<{"2"}, Dg(0, 3)>>, <<Dg(0, 1), Digits>>, <<Digits>>>>
DirM == <<<<Dg(0, 5), Digits>>, <<Digits>>>>
DirS == <<<<{"6"}, Dg(0, 1)>>, <<Dg(0, 5), Digits>>, <<Digits>>>>

Lit(c) == [kind |-> "lit", ch |-> c]
Grp(n, alts) == [kind |-> "grp", name |-> n, alts |-> alts]
Spaces == [kind |-> "ws"]

\* "%Y-%m-%d %H:%M:%S"
FormatDateTime ==
    <<Grp("Y", DirY), Lit("-"), Grp("m", Dirm), Lit("-"), Grp("d", Dird), Spaces,
      Grp("H", DirH), Lit(":"), Grp("M", DirM), Lit(":"), Grp("S", DirS)>>

\* "%Y-%m-%d"
FormatDate == <<Grp("Y", DirY), Lit("-"), Grp("m", Dirm), Lit("-"), Grp("d", Dird)>>

NoMatch == [ok |-> FALSE]

\* does alternative alt match s at position i
AltMatches(alt, s, i) ==
    /\ i + Len(alt) - 1 <= Len(s)
    /\ \A j \in 1..Len(alt) : s[i + j - 1] \in alt[j]

\* the integer a matched group stands for (int() skips the blank of " 5")
RECURSIVE IntOf(_)
IntOf(cs) ==
    IF cs = <<>> THEN 0
    ELSE IF cs[Len(cs)] = " " THEN IntOf(SubSeq(cs, 1, Len(cs) - 1))
    ELSE 10 * IntOf(SubSeq(cs, 1, Len(cs) - 1)) + DigitVal(cs[Len(cs)])

\* number of blanks at s[i..]
RECURSIVE BlankRun(_, _)
BlankRun(s, i) == IF i <= Len(s) /\ s[i] = " " THEN 1 + BlankRun(s, i + 1) ELSE 0

\* the regular expression match of fmt[k..] against s[i..]: the end of the
\* match and the groups' texts, the first in the order backtracking tries
RECURSIVE ReMatch(_, _, _, _)
RECURSIVE ReAlts(_, _, _, _, _)
RECURSIVE ReBlanks(_, _, _, _, _)
ReMatch(fmt, k, s, i) ==
    IF k > Len(fmt) THEN [ok |-> TRUE, end |-> i, groups |-> <<>>]
    ELSE IF fmt[k].kind = "lit" THEN
        IF i <= Len(s) /\ s[i] = fmt[k].ch THEN ReMatch(fmt, k + 1, s, i + 1)
        ELSE NoMatch
    ELSE IF fmt[k].kind = "ws" THEN ReBlanks(fmt, k, s, i, BlankRun(s, i))
    ELSE ReAlts(fmt, k, s, i, 1)

\* \s+ is greedy: n blanks first, then fewer, never none
ReBlanks(fmt, k, s, i, n) ==
    IF n < 1 THEN NoMatch
    ELSE LET r == ReMatch(fmt, k + 1, s, i + n)
         IN  IF r.ok THEN r ELSE ReBlanks(fmt, k, s, i, n - 1)

ReAlts(fmt, k, s, i, a) ==
    IF a > Len(fmt[k].alts) THEN NoMatch
    ELSE LET alt == fmt[k].alts[a]
             r == ReMatch(fmt, k + 1, s, i + Len(alt))
         IN  IF AltMatches(alt, s, i) /\ r.ok
             THEN [r EXCEPT !.groups =
                       <<[name |-> fmt[k].name,
                          text |-> SubSeq(s, i, i + Len(alt) - 1)]>> \o @]
             ELSE ReAlts(fmt, k, s, i, a + 1)

\* the value of group n, or dflt when the format has no such group
GroupVal(groups, n, dflt) ==
    IF \E g \in 1..Len(groups) : groups[g].name = n
    THEN IntOf(groups[CHOOSE g \in 1..Len(groups) : groups[g].name = n].text)
    ELSE dflt

IsLeap(y) == y % 4 = 0 /\ (y % 100 # 0 \/ y % 400 = 0)

DaysInMonth(y, m) ==
    IF m = 2 THEN (IF IsLeap(y) THEN 29 ELSE 28)
    ELSE IF m \in {4, 6, 9, 11} THEN 30 ELSE 31

ValueError(msg) == [type |-> "ValueError", detail |-> msg]

\* datetime(year, month, day, hour, minute, second, microsecond)
ValidDateTime(dt) ==
    /\ dt.year \in 1..9999
    /\ dt.month \in 1..12
    /\ dt.day \in 1..DaysInMonth(dt.year, dt.month)
    /\ dt.hour \in 0..23
    /\ dt.minute \in 0..59
    /\ dt.second \in 0..59

\* datetime.strptime(s, fmt): [ok |-> TRUE, dt] or [ok |-> FALSE, exc]
Strptime(s, fmt) ==
    LET r == ReMatch(fmt, 1, s, 1)
    IN  IF ~r.ok
        THEN [ok |-> FALSE, exc |-> ValueError(<<"time data does not match format">>)]
        ELSE IF r.end # Len(s) + 1
        THEN [ok |-> FALSE, exc |-> ValueError(<<"unconverted data remains">>)]
        ELSE LET dt == [year |-> GroupVal(r.groups, "Y", 1900),
                        month |-> GroupVal(r.groups, "m", 1),
                        day |-> GroupVal(r.groups, "d", 1),
                        hour |-> GroupVal(r.groups, "H", 0),
                        minute |-> GroupVal(r.groups, "M", 0),
                        second |-> GroupVal(r.groups, "S", 0),
                        microsecond |-> 0]
             IN  IF ValidDateTime(dt) THEN [ok |-> TRUE, dt |-> dt]
                 ELSE [ok |-> FALSE, exc |-> ValueError(<<"field out of range">>)]

(***************************************************************************)
(* datetime.timestamp() of a naive datetime and int(... * 1000).           *)
(* The local zone of the process is taken to be UTC.                       *)
(***************************************************************************)
DaysBeforeYear(y) ==
    (y - 1) * 365 + ((y - 1) \div 4) - ((y - 1) \div 100) + ((y - 1) \div 400)

RECURSIVE DaysBeforeMonth(_, _)
DaysBeforeMonth(y, m) ==
    IF m <= 1 THEN 0 ELSE DaysBeforeMonth(y, m - 1) + DaysInMonth(y, m - 1)

Ordinal(y, m, d) == DaysBeforeYear(y) + DaysBeforeMonth(y, m) + d

\* whole seconds from the epoch to the local time dt
LocalToSeconds(dt) ==
    (Ordinal(dt.year, dt.month, dt.day) - Ordinal(1970, 1, 1)) * 86400
        + dt.hour * 3600 + dt.minute * 60 + dt.second

RECURSIVE Log2(_)
Log2(n) == IF n < 2 THEN 0 ELSE 1 + Log2(n \div 2)

RECURSIVE Pow2(_)
Pow2(k) == IF k = 0 THEN 1 ELSE 2 * Pow2(k - 1)

(***************************************************************************)
(* The millisecond part of int((s + 0.999) * 1000) in IEEE-754 doubles,    *)
(* for 2^22 <= s < 2^31.  With e = Log2(s) and q = 52 - e the sum          *)
(* s + 0.999 is rounded to a multiple of 2^-q:  s + F / 2^q  with          *)
(* F = round(0.999 * 2^q) = 2^q - Q - c,  Q = 2^q div 1000,                *)
(* R = 2^q mod 1000,  c = 1 if R > 500 else 0.  The exact product by 1000  *)
(* is 1000 s + 999 + N / 2^q with N = R - 1000 c, and it is rounded to a   *)
(* multiple of G / 2^q, where G = 512 when the product is below 2^(e+10)   *)
(* and 1024 otherwise.  int() truncates: a product rounded below           *)
(* 1000 s + 999 yields 1000 s + 998.                                       *)
(***************************************************************************)
EndMillis(s) ==
    LET e == Log2(s)
        P == Pow2(52 - e)
        R == P % 1000
        N == IF R > 500 THEN R - 1000 ELSE R
        \* 1000 s + 999 < 2^(e+10), as s + 1 <= floor(2^e * 128 / 125)
        low == s + 1 <= Pow2(e) + 3 * (Pow2(e) \div 125) + ((3 * (Pow2(e) % 125)) \div 125)
        G == IF low THEN 512 ELSE 1024
    IN  IF -2 * N > G THEN 998 ELSE 999

\* int(dt.timestamp() * 1000): microsecond is 0 or 999000 in this program
TimestampMs(dt) ==
    LET s == LocalToSeconds(dt)
    IN  IF dt.microsecond = 0 THEN [sec |-> s, ms |-> 0]
        ELSE [sec |-> s, ms |-> EndMillis(s)]

\* dt.replace(hour=23, minute=59, second=59, microsecond=999000)
EndOfDay(dt) ==
    [dt EXCEPT !.hour = 23, !.minute = 59, !.second = 59, !.microsecond = 999000]

InvalidDatePrefix ==
    "Invalid date format. Please use YYYY-MM-DD or YYYY-MM-DD HH:MM:SS. Error: "

\* the naive datetime convert_date_to_unix settles on
\* (the mutant of C8 applies end_of_day to strings with a time too)
ParsedAlwaysEndOfDay(date_str, end_of_day) ==
    LET full == Strptime(date_str, FormatDateTime)
        date == Strptime(date_str, FormatDate)
    IN  IF full.ok THEN [ok |-> TRUE, dt |-> IF end_of_day THEN EndOfDay(full.dt) ELSE full.dt]
        ELSE IF date.ok
        THEN [ok |-> TRUE, dt |-> IF end_of_day THEN EndOfDay(date.dt) ELSE date.dt]
        ELSE date

\* (the mutant of C6 falls back to a default day when both attempts fail)
ParsedDefaulting(date_str, end_of_day) ==
    LET full == Strptime(date_str, FormatDateTime)
        date == Strptime(date_str, FormatDate)
        dflt == [year |-> 2024, month |-> 1, day |-> 1, hour |-> 0, minute |-> 0,
                 second |-> 0, microsecond |-> 0]
    IN  IF full.ok THEN [ok |-> TRUE, dt |-> full.dt]
        ELSE [ok |-> TRUE,
              dt |-> IF end_of_day THEN EndOfDay(IF date.ok THEN date.dt ELSE dflt)
                     ELSE IF date.ok THEN date.dt ELSE dflt]

Parsed(date_str, end_of_day) ==
    LET full == Strptime(date_str, FormatDateTime)
        date == Strptime(date_str, FormatDate)
    IN  IF full.ok THEN [ok |-> TRUE, dt |-> full.dt]
        ELSE IF date.ok
        THEN [ok |-> TRUE, dt |-> IF end_of_day THEN EndOfDay(date.dt) ELSE date.dt]
        ELSE date

\* convert_date_to_unix(date_str, end_of_day):
\* [ok |-> TRUE, value] or [ok |-> FALSE, exc] when it raises
convert_date_to_unix(date_str, end_of_day) ==
    LET p == Parsed(date_str, end_of_day)
    IN  IF p.ok THEN [ok |-> TRUE, value |-> TimestampMs(p.dt)]
        ELSE [ok |-> FALSE,
              exc |-> ValueError(<<InvalidDatePrefix>> \o p.exc.detail)]

(***************************************************************************)
(* The tool handlers and what they call.                                   *)
(***************************************************************************)
DateHandlers ==
    {"get_session_ids", "get_tracking_data", "get_website_stats",
     "get_website_metrics", "get_pageview_series"}

PlainHandlers == {"get_websites", "get_active_visitors"}

Handlers == DateHandlers \cup PlainHandlers

ErrorPrefix(h) ==
    CASE h = "get_websites" -> "Error fetching websites: "
      [] h = "get_session_ids" -> "Error fetching session IDs: "
      [] h = "get_tracking_data" -> "Error fetching tracking data: "
      [] h = "get_website_stats" -> "Error fetching website stats: "
      [] h = "get_website_metrics" -> "Error fetching website metrics: "
      [] h = "get_pageview_series" -> "Error fetching pageview series: "
      [] h = "get_active_visitors" -> "Error fetching active visitors: "

\* the client method a handler delegates to
RemoteOp(h) ==
    CASE h = "get_websites" -> "get_websites"
      [] h = "get_session_ids" -> "get_events_where"
      [] h = "get_tracking_data" -> "get_user_activity"
      [] h = "get_website_stats" -> "get_website_stats"
      [] h = "get_website_metrics" -> "get_website_metrics"
      [] h = "get_pageview_series" -> "get_pageview_series"
      [] h = "get_active_visitors" -> "get_active"

PageSize == 200

\* the remote's documented cap on the total it reports
ApiCap == 1000

NoTs == [sec |-> -1, ms |-> -1]
NoExc == [type |-> "none", detail |-> <<>>]
NoResult == [kind |-> "none", items |-> <<>>]
NoArgs == [handler |-> "none", website_id |-> "", start_at |-> <<>>, end_at |-> <<>>,
           event_name |-> ""]
NoLast == [kind |-> "none", req |-> 0, page |-> 0, count |-> 0]

Range(s) == {s[k] : k \in 1..Len(s)}

(***************************************************************************)
(* The remote client, seen from its call sites: a call returns a value or  *)
(* raises.  A page of events is None, an empty object, an object with the  *)
(* keys data, page and count, or an object without the key data.           *)
(***************************************************************************)
SessionIds == {"A", "B"}

RemoteErrors == {<<"401 Unauthorized">>, <<"connection timed out">>}

Counts == {5, 200, 201, 450, 1000, 1001}

RECURSIVE SeqsUpTo(_, _)
SeqsUpTo(S, n) ==
    IF n = 0 THEN {<<>>}
    ELSE LET shorter == SeqsUpTo(S, n - 1)
         IN  shorter \cup {Append(s, x) : s \in {q \in shorter : Len(q) = n - 1}, x \in S}

Resp(k, d, p, c, e) == [kind |-> k, data |-> d, page |-> p, count |-> c, detail |-> e]

NullResponses == {Resp("null", <<>>, 0, 0, <<>>), Resp("empty", <<>>, 0, 0, <<>>)}

RaisedResponses == {Resp("raise", <<>>, 0, 0, e) : e \in RemoteErrors}

PageResponses(lists, pages, counts) ==
    {Resp("page", d, p, c, <<>>) : d \in lists, p \in pages, c \in counts}

NoDataResponses(pages, counts) ==
    {Resp("nodata", <<>>, p, c, <<>>) : p \in pages, c \in counts}

\* the page number a response to the request for page req may carry: the
\* one asked for, the next one, or the first whatever was asked for
Echoes(req) == {1, req, req + 1}

\* every response the collector is followed on
AllResponses(req) ==
    NullResponses \cup RaisedResponses
        \cup PageResponses(SeqsUpTo(SessionIds, MaxData), Echoes(req), Counts)
        \cup NoDataResponses({req}, {0, 450})

\* a few responses, for the specifications that follow something else
FewResponses(req) ==
    NullResponses \cup RaisedResponses
        \cup PageResponses({<<"A", "A", "B">>, <<"B">>}, {req}, {5, 450})
        \cup NoDataResponses({req}, {0})

\* the responses of the specification of concurrent invocations
ConcResponses(req) ==
    {Resp("null", <<>>, 0, 0, <<>>),
     Resp("raise", <<>>, 0, 0, <<"connection timed out">>),
     Resp("page", <<"A", "A", "B">>, req, 450, <<>>),
     Resp("page", <<"B">>, req, 5, <<>>),
     Resp("nodata", <<>>, req, 0, <<>>)}

\* the responses of the specification that follows a collection without end:
\* pages whose page field is the first, the one requested or the next
LiveResponses(req) ==
    {Resp("null", <<>>, 0, 0, <<>>),
     Resp("raise", <<>>, 0, 0, <<"connection timed out">>),
     Resp("nodata", <<>>, req, 450, <<>>)}
        \cup PageResponses({<<>>, <<"A">>}, Echoes(req), {450, 1001})

\* the responses a specification draws from
ResponsesOf(which, req) ==
    CASE which = "all" -> AllResponses(req)
      [] which = "few" -> FewResponses(req)
      [] which = "conc" -> ConcResponses(req)
      [] which = "live" -> LiveResponses(req)

\* what the other client methods return: a JSON value, or one json cannot dump
RemoteValues ==
    {[kind |-> "value", items |-> <<"{\"pageviews\": 1}">>],
     [kind |-> "opaque", items |-> <<>>]}

\* `not events_where`
\* (the mutant of C4 ends the loop on None alone, as `is None` would)
FalsyNoneOnly(resp) == resp.kind = "null"

Falsy(resp) == resp.kind \in {"null", "empty"}

KeyError(k) == [type |-> "KeyError", detail |-> <<k>>]
RemoteError(e) == [type |-> "RemoteError", detail |-> e]
TypeError(msg) == [type |-> "TypeError", detail |-> msg]

(***************************************************************************)
(* _get_session_ids: one turn of its loop, on the response to the request  *)
(* for `page`.  ids is the list `ids` up to order, a bag.                  *)
(***************************************************************************)
\* 200 * events_where["page"] >= events_where["count"]
\* (the mutant of C9 compares with > and so asks for one page more)
StopsStrict(resp) == PageSize * resp.page > resp.count

Stops(resp) == PageSize * resp.page >= resp.count

\* list({event["sessionId"] for event in events_where["data"]})
PageIds(resp) == Range(resp.data)

\* (the mutant of C5 ends the loop on a failed call and keeps what it has)
CollectStepSwallow(page, ids, resp) ==
    IF resp.kind = "raise" \/ Falsy(resp)
    THEN [next |-> "break", page |-> page, ids |-> ids, exc |-> NoExc]
    ELSE IF resp.kind # "page"
    THEN [next |-> "raise", page |-> page, ids |-> ids, exc |-> KeyError("'data'")]
    ELSE LET merged == ids (+) SetToBag(PageIds(resp))
         IN  IF Stops(resp)
             THEN [next |-> "break", page |-> page, ids |-> merged, exc |-> NoExc]
             ELSE [next |-> "loop", page |-> page + 1, ids |-> merged, exc |-> NoExc]

CollectStep(page, ids, resp) ==
    IF resp.kind = "raise"
    THEN [next |-> "raise", page |-> page, ids |-> ids, exc |-> RemoteError(resp.detail)]
    ELSE IF Falsy(resp)
    THEN [next |-> "break", page |-> page, ids |-> ids, exc |-> NoExc]
    ELSE IF resp.kind # "page"
    THEN [next |-> "raise", page |-> page, ids |-> ids, exc |-> KeyError("'data'")]
    ELSE LET merged == ids (+) SetToBag(PageIds(resp))
         IN  IF Stops(resp)
             THEN [next |-> "break", page |-> page, ids |-> merged, exc |-> NoExc]
             ELSE [next |-> "loop", page |-> page + 1, ids |-> merged, exc |-> NoExc]

\* the lists that enumerate set S once each, in any order
Orderings(S) == {s \in [1..Cardinality(S) -> S] : Range(s) = S}

\* the lists that enumerate bag B with its repetitions, in any order
RECURSIVE BagOrderings(_)
BagOrderings(B) ==
    IF BagToSet(B) = {} THEN {<<>>}
    ELSE UNION {{<<x>> \o s : s \in BagOrderings(B (-) SetToBag({x}))} : x \in BagToSet(B)}

\* return list(set(ids))
\* (the mutant of C3 returns ids as it is)
ReturnedListsNoSet(ids) == BagOrderings(ids)

ReturnedLists(ids) == Orderings(BagToSet(ids))

(***************************************************************************)
(* json.dumps(value, indent=2), as tokens.                                 *)
(***************************************************************************)
RECURSIVE Joined(_)
Joined(items) ==
    IF Len(items) <= 1 THEN items
    ELSE <<items[1], ",">> \o Joined(Tail(items))

Serializable(v) == v.kind # "opaque"

JsonDumps(v) ==
    IF v.kind = "list" THEN <<"[">> \o Joined(v.items) \o <<"]">>
    ELSE v.items

\* `except Exception`
\* (the mutant of C1 catches what the date normalizer raises and nothing else)
CatchesValueErrorOnly(e) == e.type = "ValueError"

Catches(e) == e.type \in {"ValueError", "KeyError", "TypeError", "RemoteError"}

(***************************************************************************)
(* State: one frame per tool invocation in flight.                         *)
(***************************************************************************)
VARIABLES
    pc,        \* where the invocation is: idle, start, end, call, collect,
               \* dump, except, done, raised
    args,      \* the handler invoked and its arguments
    start_ts,  \* start_ts of the handler
    end_ts,    \* end_ts of the handler
    page,      \* page of _get_session_ids
    ids,       \* ids of _get_session_ids
    result,    \* the value the handler is about to dump
    exc,       \* the exception in flight, NoExc when there is none
    ret,       \* the text the handler returned
    calls,     \* history: the calls the invocation made on the client
    last,      \* history: the latest page response and the page it answers
    seen,      \* history: the session ids on the pages fetched
    trusted,   \* history: every page response so far echoed the page asked
               \* for and reported a count within ApiCap
    hist       \* history: the page responses in order (kept in SpecConc)

vars == <<pc, args, start_ts, end_ts, page, ids, result, exc, ret, calls, last,
          seen, trusted, hist>>

\* the invocations of the specifications of one invocation
One == {1}

\* the locals of _get_session_ids belong to the call: frame i is invocation i's
\* (the mutant of C10 keeps them in one module-level frame)
SharedFrame(i) == 1

Frame(i) == i

InitOver(I) ==
    /\ pc = [i \in I |-> "idle"]
    /\ args = [i \in I |-> NoArgs]
    /\ start_ts = [i \in I |-> NoTs]
    /\ end_ts = [i \in I |-> NoTs]
    /\ page = [i \in I |-> 0]
    /\ ids = [i \in I |-> EmptyBag]
    /\ result = [i \in I |-> NoResult]
    /\ exc = [i \in I |-> NoExc]
    /\ ret = [i \in I |-> <<>>]
    /\ calls = [i \in I |-> <<>>]
    /\ last = [i \in I |-> NoLast]
    /\ seen = [i \in I |-> {}]
    /\ trusted = [i \in I |-> TRUE]
    /\ hist = [i \in I |-> <<>>]

Init == InitOver({1})

InitConc == InitOver(1..NInv)

\* the protocol layer calls handler h with its arguments
Invoke(i, H, S, W, E) ==
    /\ pc[i] = "idle"
    /\ \E h \in H, w \in W :
        \E s \in (IF h \in DateHandlers THEN S ELSE {<<>>}),
           e \in (IF h \in DateHandlers THEN S ELSE {<<>>}),
           ev \in (IF h = "get_session_ids" THEN E ELSE {""}) :
            /\ args' = [args EXCEPT ![i] =
                   [handler |-> h,
                    website_id |-> IF h = "get_websites" THEN "" ELSE w,
                    start_at |-> s, end_at |-> e, event_name |-> ev]]
            /\ pc' = [pc EXCEPT ![i] = IF h \in DateHandlers THEN "start" ELSE "call"]
    /\ UNCHANGED <<start_ts, end_ts, page, ids, result, exc, ret, calls, last,
                   seen, trusted, hist>>

\* start_ts = convert_date_to_unix(start_at, end_of_day=False)
NormalizeStart(i) ==
    /\ pc[i] = "start"
    /\ LET r == convert_date_to_unix(args[i].start_at, FALSE)
       IN  IF r.ok
           THEN /\ start_ts' = [start_ts EXCEPT ![i] = r.value]
                /\ pc' = [pc EXCEPT ![i] = "end"]
                /\ exc' = exc
           ELSE /\ exc' = [exc EXCEPT ![i] = r.exc]
                /\ pc' = [pc EXCEPT ![i] = "except"]
                /\ start_ts' = start_ts
    /\ UNCHANGED <<args, end_ts, page, ids, result, ret, calls, last, seen,
                   trusted, hist>>

\* end_ts = convert_date_to_unix(end_at, end_of_day=True); get_session_ids
\* then enters _get_session_ids: ids = [], page = 1
NormalizeEnd(i) ==
    /\ pc[i] = "end"
    /\ LET r == convert_date_to_unix(args[i].end_at, TRUE)
           collects == args[i].handler = "get_session_ids"
       IN  IF r.ok
           THEN /\ end_ts' = [end_ts EXCEPT ![i] = r.value]
                /\ pc' = [pc EXCEPT ![i] = IF collects THEN "collect" ELSE "call"]
                /\ page' = IF collects THEN [page EXCEPT ![Frame(i)] = 1] ELSE page
                /\ ids' = IF collects THEN [ids EXCEPT ![Frame(i)] = EmptyBag] ELSE ids
                /\ exc' = exc
           ELSE /\ exc' = [exc EXCEPT ![i] = r.exc]
                /\ pc' = [pc EXCEPT ![i] = "except"]
                /\ UNCHANGED <<end_ts, page, ids>>
    /\ UNCHANGED <<args, start_ts, result, ret, calls, last, seen, trusted, hist>>

\* the arguments of one call on the client
Call(i, pg) ==
    LET a == args[i]
        paged == a.handler = "get_session_ids"
    IN  [op |-> RemoteOp(a.handler), website_id |-> a.website_id,
         start_at |-> start_ts[i], end_at |-> end_ts[i],
         query |-> a.event_name,
         page |-> IF paged THEN pg ELSE 0,
         page_size |-> IF paged THEN PageSize ELSE 0]

CallOutcomes ==
    {[ok |-> TRUE, value |-> v, exc |-> NoExc] : v \in RemoteValues}
        \cup {[ok |-> FALSE, value |-> NoResult, exc |-> RemoteError(e)] :
                e \in RemoteErrors}

\* the single client call of every handler but get_session_ids
CallRemote(i) ==
    /\ pc[i] = "call"
    /\ calls' = [calls EXCEPT ![i] = Append(@, Call(i, 0))]
    /\ \E out \in CallOutcomes :
        /\ result' = [result EXCEPT ![i] = out.value]
        /\ exc' = [exc EXCEPT ![i] = out.exc]
        /\ pc' = [pc EXCEPT ![i] = IF out.ok THEN "dump" ELSE "except"]
    /\ UNCHANGED <<args, start_ts, end_ts, page, ids, ret, last, seen, trusted, hist>>

\* one turn of the loop of _get_session_ids: the request for the page the
\* counter holds, and what the loop does with the response
FetchPage(i, which, keep) ==
    /\ pc[i] = "collect"
    /\ page[Frame(i)] <= MaxPage
    /\ \E resp \in ResponsesOf(which, page[Frame(i)]) :
        LET req == page[Frame(i)]
            step == CollectStep(req, ids[Frame(i)], resp)
        IN  /\ calls' = [calls EXCEPT ![i] = Append(@, Call(i, req))]
            /\ page' = [page EXCEPT ![Frame(i)] = step.page]
            /\ ids' = [ids EXCEPT ![Frame(i)] = step.ids]
            /\ exc' = [exc EXCEPT ![i] = step.exc]
            /\ pc' = [pc EXCEPT ![i] =
                   CASE step.next = "loop" -> "collect"
                     [] step.next = "break" -> "dump"
                     [] step.next = "raise" -> "except"]
            /\ IF step.next = "break"
               THEN \E l \in ReturnedLists(step.ids) :
                       result' = [result EXCEPT ![i] = [kind |-> "list", items |-> l]]
               ELSE result' = result
            /\ last' = [last EXCEPT ![i] =
                   [kind |-> resp.kind, req |-> req, page |-> resp.page,
                    count |-> resp.count]]
            /\ seen' = [seen EXCEPT ![i] =
                   IF resp.kind = "page" THEN @ \cup Range(resp.data) ELSE @]
            /\ trusted' = [trusted EXCEPT ![i] =
                   IF resp.kind = "page"
                   THEN @ /\ resp.page = req /\ resp.count <= ApiCap
                   ELSE @]
            /\ hist' = [hist EXCEPT ![i] = IF keep THEN Append(@, resp) ELSE @]
    /\ UNCHANGED <<args, start_ts, end_ts, ret>>

\* return json.dumps(..., indent=2)
Dump(i) ==
    /\ pc[i] = "dump"
    /\ IF Serializable(result[i])
       THEN /\ ret' = [ret EXCEPT ![i] = JsonDumps(result[i])]
            /\ pc' = [pc EXCEPT ![i] = "done"]
            /\ exc' = exc
       ELSE /\ exc' = [exc EXCEPT ![i] = TypeError(<<"Object is not JSON serializable">>)]
            /\ pc' = [pc EXCEPT ![i] = "except"]
            /\ ret' = ret
    /\ UNCHANGED <<args, start_ts, end_ts, page, ids, result, calls, last, seen,
                   trusted, hist>>

\* except Exception as e: return f"<prefix>{e}"
HandleError(i) ==
    /\ pc[i] = "except"
    /\ IF Catches(exc[i])
       THEN /\ ret' = [ret EXCEPT ![i] = <<ErrorPrefix(args[i].handler)>> \o exc[i].detail]
            /\ pc' = [pc EXCEPT ![i] = "done"]
       ELSE /\ pc' = [pc EXCEPT ![i] = "raised"]
            /\ ret' = ret
    /\ UNCHANGED <<args, start_ts, end_ts, page, ids, result, exc, calls, last,
                   seen, trusted, hist>>

(***************************************************************************)
(* Spec: one invocation of any handler on any of the date strings.         *)
(***************************************************************************)
Next ==
    \E i \in One :
        \/ Invoke(i, Handlers, DateStrings, {"site-1"}, {"None"})
        \/ NormalizeStart(i)
        \/ NormalizeEnd(i)
        \/ CallRemote(i)
        \/ FetchPage(i, "few", FALSE)
        \/ Dump(i)
        \/ HandleError(i)

Spec == Init /\ [][Next]_vars

(***************************************************************************)
(* SpecCollect: one get_session_ids over every response of the remote.     *)
(***************************************************************************)
CollectDates == {DateText(2024, 3, 1)}

NextCollect ==
    \E i \in One :
        \/ Invoke(i, {"get_session_ids"}, CollectDates, {"site-1"},
                  {"None", "checkout_started"})
        \/ NormalizeStart(i)
        \/ NormalizeEnd(i)
        \/ FetchPage(i, "all", FALSE)
        \/ Dump(i)
        \/ HandleError(i)

SpecCollect == Init /\ [][NextCollect]_vars

(***************************************************************************)
(* What the claims speak of.                                               *)
(***************************************************************************)
\* both strptime attempts of convert_date_to_unix fail on s
Unparseable(s) == ~Strptime(s, FormatDateTime).ok /\ ~Strptime(s, FormatDate).ok

RealDay(x) == x[2] \in 1..12 /\ x[3] \in 1..DaysInMonth(x[1], x[2])

RealTime(t) == t[1] \in 0..23 /\ t[2] \in 0..59 /\ t[3] \in 0..59

\* s is "YYYY-MM-DD" for a day of the calendar
IsDateOnly(s) == \E x \in SampleYMD : RealDay(x) /\ s = DateText(x[1], x[2], x[3])

DayOf(s) == CHOOSE x \in SampleYMD : s = DateText(x[1], x[2], x[3])

\* seconds from the epoch to 00:00:00 local time of that day
Midnight(x) == (Ordinal(x[1], x[2], x[3]) - Ordinal(1970, 1, 1)) * 86400

\* the timestamp of the day at 00:00:00.000 and at 23:59:59.999
DayStart(s) == [sec |-> Midnight(DayOf(s)), ms |-> 0]
DayEnd(s) == [sec |-> Midnight(DayOf(s)) + 86399, ms |-> 999]

\* b - a in milliseconds, for timestamps less than a month apart
MsBetween(a, b) == (b.sec - a.sec) * 1000 + (b.ms - a.ms)

Stamped(x, t) == DateText(x[1], x[2], x[3]) \o <<" ">> \o TimeText(t[1], t[2], t[3])

\* s is "YYYY-MM-DD HH:MM:SS" for a time of a day of the calendar
HasTime(s) ==
    \E x \in SampleYMD, t \in SampleHMS : RealDay(x) /\ RealTime(t) /\ s = Stamped(x, t)

\* the timestamp of exactly the local time s gives
ExactTime(s) ==
    LET c == CHOOSE c \in SampleYMD \X SampleHMS : s = Stamped(c[1], c[2])
    IN  [sec |-> Midnight(c[1]) + c[2][1] * 3600 + c[2][2] * 60 + c[2][3], ms |-> 0]

Returned(i) == pc[i] = "done"

\* C1: every handler returns a text and never raises: whatever was raised
\* while it normalized its dates, called the client or dumped the result, it
\* returns its error prefix followed by the detail of the failure.
C1_HandlersReturnText ==
    \A i \in One :
        /\ pc[i] # "raised"
        /\ Returned(i) =>
            /\ ret[i] # <<>>
            /\ exc[i] # NoExc => ret[i] = <<ErrorPrefix(args[i].handler)>> \o exc[i].detail

\* a handler returned the error text of a result json could not dump
C1_Witness ==
    \E i \in One :
        /\ Returned(i)
        /\ exc[i].type = "TypeError"
        /\ ret[i][1] = ErrorPrefix(args[i].handler)

C7_DateOnlyBounds ==
    \A i \in One :
        IsDateOnly(args[i].start_at) /\ IsDateOnly(args[i].end_at) =>
            \A k \in 1..Len(calls[i]) :
                /\ calls[i][k].start_at = DayStart(args[i].start_at)
                /\ calls[i][k].end_at = DayEnd(args[i].end_at)
                /\ args[i].start_at = args[i].end_at =>
                    MsBetween(calls[i][k].start_at, calls[i][k].end_at) = 86399999

\* C8: a string with an explicit time is normalized to exactly that time
\* whatever end_of_day is: as a start and as an end alike.
C8_ExplicitTimeIgnoresEndOfDay ==
    \A i \in One :
        /\ \A s \in {args[i].start_at, args[i].end_at} :
            HasTime(s) =>
                /\ convert_date_to_unix(s, TRUE) = convert_date_to_unix(s, FALSE)
                /\ convert_date_to_unix(s, TRUE) = [ok |-> TRUE, value |-> ExactTime(s)]
        /\ HasTime(args[i].start_at) /\ pc[i] \notin {"idle", "start"} =>
            start_ts[i] = ExactTime(args[i].start_at)
        /\ HasTime(args[i].end_at) /\ end_ts[i] # NoTs =>
            end_ts[i] = ExactTime(args[i].end_at)

\* a handler called the client with end_at = 2024-03-01 08:30:00 exactly
C8_Witness ==
    \E i \in One :
        /\ args[i].end_at = Stamped(<<2024, 3, 1>>, <<8, 30, 0>>)
        /\ Len(calls[i]) = 1
        /\ calls[i][1].end_at = [sec |-> 1709281800, ms |-> 0]

NoDuplicates(l) == \A j, k \in 1..Len(l) : j # k => l[j] # l[k]

\* the collector has stopped without raising and holds its result
Collected(i) == result[i].kind = "list"

\* C2: after a page response to the request for page p of its own counter,
\* the collector stops iff 200 * p >= the count of that response, and
\* otherwise moves its counter to p + 1.
C2_StopsOnOwnCounter ==
    \A i \in One :
        last[i].kind = "page" =>
            /\ pc[i] # "collect" <=> PageSize * last[i].req >= last[i].count
            /\ pc[i] = "collect" => page[i] = last[i].req + 1

\* C3: the result of the collector has no duplicates and holds exactly the
\* session ids on the pages it fetched.
C3_ResultIsTheIdsFetched ==
    \A i \in One :
        Collected(i) =>
            /\ NoDuplicates(result[i].items)
            /\ Range(result[i].items) = seen[i]

\* one page with count 5 gave A and B; page 2 was never requested
C3_Witness ==
    \E i \in One :
        /\ Returned(i)
        /\ last[i] = [kind |-> "page", req |-> 1, page |-> 1, count |-> 5]
        /\ ids[i] = SetToBag({"A", "B"})
        /\ Len(calls[i]) = 1
        /\ ret[i] \in {<<"[", "A", ",", "B", "]">>, <<"[", "B", ",", "A", "]">>}

\* C4: on a null or empty response for page k the collector stops without
\* raising and without a further request, its result is the ids of pages
\* 1..k-1 (none when k = 1), and get_session_ids returns it as a JSON list.
C4_EmptyPageEndsQuietly ==
    \A i \in One :
        last[i].kind \in {"null", "empty"} =>
            /\ pc[i] \in {"dump", "done"}
            /\ exc[i] = NoExc
            /\ Len(calls[i]) = last[i].req
            /\ Collected(i)
            /\ NoDuplicates(result[i].items)
            /\ Range(result[i].items) = seen[i]
            /\ last[i].req = 1 => result[i].items = <<>>
            /\ Returned(i) =>
                /\ ret[i][1] = "["
                /\ ret[i][Len(ret[i])] = "]"
                /\ {ret[i][k] : k \in 2..(Len(ret[i]) - 1)} \ {","} = seen[i]

\* the second page came back empty and the ids of the first were returned
C4_Witness ==
    \E i \in One :
        /\ Returned(i)
        /\ last[i].kind = "empty"
        /\ last[i].req = 2
        /\ ret[i] = <<"[", "A", "]">>

\* C5: when the call for page k fails, get_session_ids returns the error
\* text alone: the call is not made again, no further page is requested, and
\* no session id of pages 1..k-1 is in the text.
C5_FailureDropsPartialResult ==
    \A i \in One :
        last[i].kind = "raise" =>
            /\ pc[i] \in {"except", "done"}
            /\ Len(calls[i]) = last[i].req
            /\ ~Collected(i)
            /\ Returned(i) =>
                /\ ret[i] = <<"Error fetching session IDs: ">> \o exc[i].detail
                /\ exc[i].detail \in RemoteErrors
                /\ Range(ret[i]) \cap SessionIds = {}

\* the call for page 3 failed after ids were gathered, and the error returned
C5_Witness ==
    \E i \in One :
        /\ Returned(i)
        /\ last[i].kind = "raise"
        /\ last[i].req = 3
        /\ seen[i] = {"A", "B"}
        /\ ret[i] = <<"Error fetching session IDs: ", "connection timed out">>

\* C9: while every page response echoes the page asked for and reports a
\* count of at most 1000, a collection makes at most 5 requests, for pages
\* 1, 2, 3, ... in order, each of size 200 with the arguments of the call.
C9_AtMostFivePagesInOrder ==
    \A i \in One :
        trusted[i] =>
            /\ Len(calls[i]) <= 5
            /\ \A k \in 1..Len(calls[i]) :
                /\ calls[i][k].page = k
                /\ calls[i][k].page_size = 200
                /\ calls[i][k].op = "get_events_where"
                /\ calls[i][k].website_id = args[i].website_id
                /\ calls[i][k].query = args[i].event_name
                /\ calls[i][k].start_at = start_ts[i]
                /\ calls[i][k].end_at = end_ts[i]

\* five pages were requested of a remote reporting 1000, and the fifth ended it
C9_Witness ==
    \E i \in One :
        /\ Returned(i)
        /\ trusted[i]
        /\ Len(calls[i]) = 5
        /\ last[i] = [kind |-> "page", req |-> 5, page |-> 5, count |-> 1000]
        /\ args[i].event_name = "checkout_started"

(***************************************************************************)
(* SpecConc: NInv invocations of get_session_ids in flight at once, their  *)
(* steps interleaved in every order, each keeping the responses it got.    *)
(* The client calls of server.py do not await, so a handler runs to its    *)
(* end once started; the interleaving at every call is the coarser         *)
(* assumption of the two.                                                  *)
(***************************************************************************)
NextConc ==
    \E i \in 1..NInv :
        \/ Invoke(i, {"get_session_ids"}, CollectDates, {"site-1"}, {"None"})
        \/ NormalizeStart(i)
        \/ NormalizeEnd(i)
        \/ FetchPage(i, "conc", TRUE)
        \/ Dump(i)
        \/ HandleError(i)

SpecConc == InitConc /\ [][NextConc]_vars

\* _get_session_ids run alone on the responses h, from ids = [], page = 1
RECURSIVE RunFrom(_, _, _)
RunFrom(pg, bag, h) ==
    IF h = <<>> THEN [next |-> "loop", page |-> pg, ids |-> bag, exc |-> NoExc]
    ELSE LET step == CollectStep(pg, bag, Head(h))
         IN  IF step.next = "loop" THEN RunFrom(step.page, step.ids, Tail(h))
             ELSE step

RunAlone(h) == RunFrom(1, EmptyBag, h)

\* C10: invocations in flight share no page counter and no ids: however
\* their steps interleave, each asks for its own pages 1, 2, ... and ends as
\* it would alone on the responses given to its own requests.
C10_InvocationsDoNotInterfere ==
    \A i \in 1..NInv :
        LET alone == RunAlone(hist[i])
        IN  /\ Len(calls[i]) = Len(hist[i])
            /\ \A k \in 1..Len(calls[i]) : calls[i][k].page = k
            /\ alone.next = "loop" => pc[i] \in {"idle", "start", "end", "collect"}
            /\ alone.next = "break" =>
                /\ pc[i] \in {"dump", "done"}
                /\ Collected(i)
                /\ NoDuplicates(result[i].items)
                /\ Range(result[i].items) = BagToSet(alone.ids)
                /\ Returned(i) => ret[i] = JsonDumps(result[i])
            /\ alone.next = "raise" =>
                /\ pc[i] \in {"except", "done"}
                /\ exc[i] = alone.exc
                /\ Returned(i) => ret[i] = <<"Error fetching session IDs: ">> \o alone.exc.detail

\* two invocations got the same first page and ended differently
C10_Witness ==
    /\ Returned(1) /\ Returned(2)
    /\ Len(hist[1]) = 3 /\ Len(hist[2]) = 2
    /\ hist[1][1] = hist[2][1]
    /\ ret[1] \in {<<"[", "A", ",", "B", "]">>, <<"[", "B", ",", "A", "]">>}
    /\ ret[2] = <<"Error fetching session IDs: ", "connection timed out">>

(***************************************************************************)
(* A page response that is an object without the key data.                 *)
(***************************************************************************)
\* C11: on a page response that is present but has no data key the collector
\* stops as on a null one, without raising: its result is the ids gathered
\* so far, and get_session_ids returns them as a JSON list, not an error text.
C11_NoDataKeyEndsQuietly ==
    \A i \in One :
        last[i].kind = "nodata" =>
            /\ pc[i] \in {"dump", "done"}
            /\ exc[i] = NoExc
            /\ Collected(i)
            /\ Range(result[i].items) = seen[i]
            /\ Returned(i) =>
                /\ ret[i][1] = "["
                /\ ret[i][1] # ErrorPrefix(args[i].handler)

(***************************************************************************)
(* SpecLive: one get_session_ids followed without end.  The loop of        *)
(* _get_session_ids reads its counter `page` only to send it and to add    *)
(* one to it, so the page numbers beyond MaxPage are followed as one:      *)
(* MaxPage + 1 stands for each of them.  Beyond MaxPage the remote's pages *)
(* carry no events, which keeps `ids` as it is, and the histories calls,   *)
(* seen and hist are left at what they held for the pages up to MaxPage.   *)
(* Every count the remote reports is at most 1001.                         *)
(***************************************************************************)
\* the responses to the request for a page beyond MaxPage
BeyondResponses(req) == {resp \in LiveResponses(req) : resp.data = <<>>}

\* one turn of the loop of _get_session_ids on a page beyond MaxPage
FetchBeyond(i) ==
    /\ pc[i] = "collect"
    /\ page[Frame(i)] > MaxPage
    /\ \E resp \in BeyondResponses(page[Frame(i)]) :
        LET req == page[Frame(i)]
            step == CollectStep(req, ids[Frame(i)], resp)
        IN  /\ page' = [page EXCEPT ![Frame(i)] =
                   IF step.page > MaxPage THEN MaxPage + 1 ELSE step.page]
            /\ ids' = [ids EXCEPT ![Frame(i)] = step.ids]
            /\ exc' = [exc EXCEPT ![i] = step.exc]
            /\ pc' = [pc EXCEPT ![i] =
                   CASE step.next = "loop" -> "collect"
                     [] step.next = "break" -> "dump"
                     [] step.next = "raise" -> "except"]
            /\ IF step.next = "break"
               THEN \E l \in ReturnedLists(step.ids) :
                       result' = [result EXCEPT ![i] = [kind |-> "list", items |-> l]]
               ELSE result' = result
            /\ last' = [last EXCEPT ![i] =
                   [kind |-> resp.kind, req |-> req, page |-> resp.page,
                    count |-> resp.count]]
            /\ trusted' = [trusted EXCEPT ![i] =
                   IF resp.kind = "page"
                   THEN @ /\ resp.page = req /\ resp.count <= ApiCap
                   ELSE @]
    /\ UNCHANGED <<args, start_ts, end_ts, ret, calls, seen, hist>>

NextLive ==
    \E i \in One :
        \/ Invoke(i, {"get_session_ids"}, CollectDates, {"site-1"},
                  {"None", "checkout_started"})
        \/ NormalizeStart(i)
        \/ NormalizeEnd(i)
        \/ FetchPage(i, "live", FALSE)
        \/ FetchBeyond(i)
        \/ Dump(i)
        \/ HandleError(i)

\* the loop of _get_session_ids runs on: its body holds no await, and a call
\* on the client comes back with a response or an exception.  Nothing else
\* is asked of the scheduling.
Fairness ==
    \A i \in One :
        /\ WF_vars(FetchPage(i, "live", FALSE))
        /\ WF_vars(FetchBeyond(i))

SpecLive == Init /\ [][NextLive]_vars /\ Fairness

\* the collector has left its loop: it returned its list or raised
Finished(i) == pc[i] \in {"dump", "except", "done", "raised"}

\* C12: every session collection eventually finishes, by a result or by an
\* exception, whatever the page responses with bounded count are, among
\* them responses whose page field is not the page requested: the collector
\* never requests pages forever.
C12_CollectionFinishes ==
    \A i \in One : (pc[i] = "collect") ~> Finished(i)

====
